---- MODULE Spec2Model ----
(***************************************************************************)
(* Model of services.py: RepositoryService.load_and_index_repository,      *)
(* ChatService.get_response, GitHubService.analyze_issue and               *)
(* GitHubService.search_issues.                                            *)
(*                                                                         *)
(* Strings whose characters matter (issue titles, keywords) are sequences  *)
(* of one-character strings.  File paths are sequences of path segments    *)
(* whose last segment is the suffix; chunk texts are sequences of tokens.  *)
(***************************************************************************)
EXTENDS Integers, Sequences, FiniteSets, TLC

VARIABLES
  \* the durable vector store: one collection per path repo_<id>
  store,
  \* the temporary directories that exist on disk
  fs_temp,
  \* load_and_index_repository: position and locals of the running call
  ipc, calls, temp_dir, repo_id, file_extensions, loaded, documents, language,
  splits, written, iResult,
  \* history of the indexing calls
  storeAtCall, okBuilds,
  \* get_response: position and locals of the running call
  cpc, chats, question, vector_store_path, promptDocs, cLlmCalls, cLlmFailed,
  cResult,
  \* analyze_issue: position and locals of the running call
  apc, analyses, issue_data, aLlmCalls, aLlmFailed, aResult,
  \* search_issues: position and locals of the running call
  spc, searches, listing, cursor, keywords, max_results, issues_list, sResult

ivars == <<ipc, calls, temp_dir, repo_id, file_extensions, loaded, documents,
           language, splits, written, iResult, storeAtCall, okBuilds>>
cvars == <<cpc, chats, question, vector_store_path, promptDocs, cLlmCalls,
           cLlmFailed, cResult>>
avars == <<apc, analyses, issue_data, aLlmCalls, aLlmFailed, aResult>>
svars == <<spc, searches, listing, cursor, keywords, max_results, issues_list,
           sResult>>
vars == <<store, fs_temp, ivars, cvars, avars, svars>>

----------------------------------------------------------------------------
\* Bounds of the model

\* calls of load_and_index_repository in one behaviour
MaxCalls == 2
\* calls of get_response in one behaviour
MaxChats == 1
\* calls of analyze_issue in one behaviour
MaxAnalyses == 1
\* calls of search_issues in one behaviour
MaxSearches == 1
\* longest file_extensions list a caller supplies
MaxExts == 3
\* largest max_results a caller supplies
MaxCap == 2

\* temp_dir = None
NoDir == 0

\* the result variable of a service before its first call returns
NoResult == [pending |-> TRUE]

RepoIds == {1, 2}

----------------------------------------------------------------------------
\* Generic sequence helpers

Min(a, b) == IF a < b THEN a ELSE b

Take(s, n) == SubSeq(s, 1, Min(n, Len(s)))

RECURSIVE Pick(_, _, _)
\* the subsequence of seq at the indices in S, from index i on
Pick(seq, S, i) ==
  IF i > Len(seq) THEN <<>>
  ELSE (IF i \in S THEN <<seq[i]>> ELSE <<>>) \o Pick(seq, S, i + 1)

SeqsUpTo(S, n) == UNION {[1..k -> S] : k \in 0..n}

----------------------------------------------------------------------------
\* RepositoryService.load_and_index_repository

\* The files a clone of the remote repository may hold, in tree order.
AllFiles ==
  << [path |-> <<"a", ".py">>, content |-> <<"def", "foo">>],
     [path |-> <<"b", ".js">>, content |-> <<"foo", "bar">>],
     [path |-> <<"r", ".md">>, content |-> <<"bar">>] >>

\* The remote repository changes between calls: a clone yields any of these.
RepoTrees == {Pick(AllFiles, S, 1) : S \in SUBSET (1..Len(AllFiles))}

\* The file_extensions lists callers supply to an indexing call.
ExtLists == {<<".py">>, <<".md", ".js">>, <<".py", ".md">>, <<".txt">>}

\* The extensions the language choice is tried on.
LangExts == {".py", ".js", ".c", ".md", ".txt"}

\* str.endswith on a path whose last segment is its suffix
EndsWith(file_path, ext) ==
  Len(file_path) > 0 /\ file_path[Len(file_path)] = ext

file_filter(file_path, exts) ==
  \E i \in 1..Len(exts) : EndsWith(file_path, exts[i])

RECURSIVE load(_, _)
\* GitLoader.load(): a Document per file of the clone that passes file_filter
load(tree, exts) ==
  IF tree = <<>> THEN <<>>
  ELSE (IF file_filter(Head(tree).path, exts)
        THEN <<[page_content |-> Head(tree).content, source |-> Head(tree).path]>>
        ELSE <<>>) \o load(Tail(tree), exts)

language_map ==
  (".py" :> "PYTHON") @@ (".js" :> "JS") @@ (".jsx" :> "JS") @@
  (".ts" :> "TS") @@ (".tsx" :> "TS") @@ (".java" :> "JAVA") @@
  (".cpp" :> "CPP") @@ (".c" :> "CPP") @@ (".go" :> "GO") @@ (".rb" :> "RUBY")

RECURSIVE language_loop(_, _)
\* the for loop over file_extensions, from index i on, with its break
language_loop(exts, i) ==
  IF i > Len(exts) THEN "PYTHON"
  ELSE IF exts[i] \in DOMAIN language_map THEN language_map[exts[i]]
  ELSE language_loop(exts, i + 1)

RECURSIVE language_loop_nobreak(_, _, _)
language_loop_nobreak(exts, i, lang) ==
  IF i > Len(exts) THEN lang
  ELSE language_loop_nobreak(exts, i + 1,
         IF exts[i] \in DOMAIN language_map THEN language_map[exts[i]] ELSE lang)

\* the loop without its break: the last configured extension wins
choose_language_last(exts) == language_loop_nobreak(exts, 1, "PYTHON")

choose_language(exts) == language_loop(exts, 1)

\* split_documents: every document of the model is shorter than chunk_size,
\* so each yields exactly one chunk
split_documents(docs) == docs

\* `if not documents` never taken
no_documents_unchecked(docs) == FALSE

no_documents(docs) == docs = <<>>

\* finally: shutil.rmtree(temp_dir) when temp_dir is set and exists
rmtree_temp(dirs, t) == IF t # NoDir /\ t \in dirs THEN dirs \ {t} ELSE dirs

\* a cleanup that runs on the success path only
IndexExitNoFinallyOnError(res) ==
  /\ iResult' = res
  /\ fs_temp' = IF res.success THEN rmtree_temp(fs_temp, temp_dir) ELSE fs_temp
  /\ ipc' = "idle"

\* every return of the call: the result, then the finally block
IndexExit(res) ==
  /\ iResult' = res
  /\ fs_temp' = rmtree_temp(fs_temp, temp_dir)
  /\ ipc' = "idle"

Failure(e) == [success |-> FALSE, error |-> e]

\* tempfile.mkdtemp() raises: temp_dir is still None in the finally block
IndexCallMkdtempRaises ==
  /\ ipc = "idle" /\ calls < MaxCalls
  /\ \E id \in RepoIds, exts \in ExtLists :
       /\ repo_id' = id
       /\ file_extensions' = exts
  /\ calls' = calls + 1
  /\ temp_dir' = NoDir
  /\ loaded' = FALSE /\ documents' = <<>> /\ language' = "unset"
  /\ splits' = <<>> /\ written' = 0
  /\ storeAtCall' = store
  /\ iResult' = Failure("mkdtemp")
  /\ UNCHANGED <<store, fs_temp, ipc, okBuilds, cvars, avars, svars>>

\* the call starts: temp_dir = tempfile.mkdtemp()
IndexCall ==
  /\ ipc = "idle" /\ calls < MaxCalls
  /\ \E id \in RepoIds, exts \in ExtLists :
       /\ repo_id' = id
       /\ file_extensions' = exts
  /\ calls' = calls + 1
  /\ temp_dir' = calls + 1
  /\ fs_temp' = fs_temp \cup {calls + 1}
  /\ loaded' = FALSE /\ documents' = <<>> /\ language' = "unset"
  /\ splits' = <<>> /\ written' = 0
  /\ storeAtCall' = store
  /\ ipc' = "load"
  /\ UNCHANGED <<store, iResult, okBuilds, cvars, avars, svars>>

\* loader.load() raises (the clone fails)
IndexLoadRaises ==
  /\ ipc = "load"
  /\ IndexExit(Failure("clone"))
  /\ UNCHANGED <<store, calls, temp_dir, repo_id, file_extensions, loaded,
                 documents, language, splits, written, storeAtCall, okBuilds,
                 cvars, avars, svars>>

\* loader.load() returns; the empty check, the language choice, the split
IndexLoad ==
  /\ ipc = "load"
  /\ \E tree \in RepoTrees :
       LET docs == load(tree, file_extensions) IN
       /\ loaded' = TRUE
       /\ documents' = docs
       /\ IF no_documents(docs)
          THEN /\ IndexExit(Failure("No files found matching the selected extensions"))
               /\ UNCHANGED <<language, splits>>
          ELSE /\ language' = choose_language(file_extensions)
               /\ splits' = split_documents(docs)
               /\ ipc' = "persist"
               /\ UNCHANGED <<iResult, fs_temp>>
  /\ UNCHANGED <<store, calls, temp_dir, repo_id, file_extensions, written,
                 storeAtCall, okBuilds, cvars, avars, svars>>

\* the entry Chroma stores for a chunk: a fresh id, the text, the metadata
Entry(call, k, doc) ==
  [id |-> <<call, k>>, page_content |-> doc.page_content, source |-> doc.source]

\* Chroma.from_documents opens the collection that persist_directory already
\* holds and adds the next batch of chunks to it (one chunk per batch here)
IndexPersistBatch ==
  /\ ipc = "persist" /\ written < Len(splits)
  /\ store' = [store EXCEPT ![repo_id] =
                 Append(@, Entry(calls, written + 1, splits[written + 1]))]
  /\ written' = written + 1
  /\ UNCHANGED <<fs_temp, ipc, calls, temp_dir, repo_id, file_extensions,
                 loaded, documents, language, splits, iResult, storeAtCall,
                 okBuilds, cvars, avars, svars>>

\* embedding or persisting the next batch raises
IndexPersistRaises ==
  /\ ipc = "persist" /\ written < Len(splits)
  /\ IndexExit(Failure("persist"))
  /\ UNCHANGED <<store, calls, temp_dir, repo_id, file_extensions, loaded,
                 documents, language, splits, written, storeAtCall, okBuilds,
                 cvars, avars, svars>>

\* from_documents has returned: the success result
IndexReturn ==
  /\ ipc = "persist" /\ written = Len(splits)
  /\ IndexExit([success |-> TRUE,
                file_count |-> Len(documents),
                chunk_count |-> Len(splits),
                vector_store_path |-> repo_id])
  /\ okBuilds' = [okBuilds EXCEPT ![repo_id] = @ + 1]
  /\ UNCHANGED <<store, calls, temp_dir, repo_id, file_extensions, loaded,
                 documents, language, splits, written, storeAtCall,
                 cvars, avars, svars>>

----------------------------------------------------------------------------
\* ChatService.get_response

\* search_kwargs={"k": 3} and retrieved_docs[:3]
TopK == 3
\* doc.page_content[:500]
PreviewLen == 500

\* The questions callers ask.
Questions == {<<"foo">>, <<"bar">>}

\* Similarity of a chunk to the query: the chunk tokens the query names.
Score(q, content) ==
  Cardinality({i \in 1..Len(content) : \E j \in 1..Len(q) : q[j] = content[i]})

\* the rank of entry i: entries scoring higher, or equal and inserted earlier
Rank(entries, q, i) ==
  Cardinality({j \in 1..Len(entries) :
     \/ Score(q, entries[j].page_content) > Score(q, entries[i].page_content)
     \/ /\ Score(q, entries[j].page_content) = Score(q, entries[i].page_content)
        /\ j < i})

\* the retriever: the k nearest entries of the collection, nearest first
similarity_search(entries, q, k) ==
  [n \in 1..Min(k, Len(entries)) |->
     entries[CHOOSE i \in 1..Len(entries) : Rank(entries, q, i) = n - 1]]

\* the citation built for a retrieved document
context_doc(doc) ==
  [content |-> Take(doc.page_content, PreviewLen), source |-> doc.source]

context_docs_of(docs) ==
  [n \in 1..Len(Take(docs, TopK)) |-> context_doc(docs[n])]

\* an except block that runs the chain again
ChatExceptRetry(e) ==
  /\ cpc' = "llm"
  /\ cResult' = cResult

\* except Exception as e: return {"success": False, "error": str(e)}
ChatExcept(e) ==
  /\ cpc' = "idle"
  /\ cResult' = Failure(e)

\* the call starts: the prompt, the vector store handle, the retriever, the chain
ChatCall ==
  /\ cpc = "idle" /\ chats < MaxChats
  /\ \E q \in Questions, path \in RepoIds :
       /\ question' = q
       /\ vector_store_path' = path
  /\ chats' = chats + 1
  /\ promptDocs' = <<>> /\ cLlmCalls' = 0 /\ cLlmFailed' = FALSE
  /\ cpc' = "retrieve"
  /\ UNCHANGED <<store, fs_temp, cResult, ivars, avars, svars>>

\* retrieval_chain.invoke, first stage: retriever | format_docs fills {context}
ChatChainRetrieve ==
  /\ cpc = "retrieve"
  /\ promptDocs' = similarity_search(store[vector_store_path], question, TopK)
  /\ cpc' = "llm"
  /\ UNCHANGED <<store, fs_temp, chats, question, vector_store_path,
                 cLlmCalls, cLlmFailed, cResult, ivars, avars, svars>>

\* a retrieval raises (the store cannot be read)
ChatRetrieveRaises ==
  /\ cpc \in {"retrieve", "context"}
  /\ ChatExcept("retrieve")
  /\ UNCHANGED <<store, fs_temp, chats, question, vector_store_path,
                 promptDocs, cLlmCalls, cLlmFailed, ivars, avars, svars>>

\* retrieval_chain.invoke, last stages: prompt | llm | StrOutputParser()
ChatLLM ==
  /\ cpc = "llm"
  /\ cLlmCalls' = cLlmCalls + 1
  /\ \/ /\ cpc' = "context"
        /\ UNCHANGED <<cLlmFailed, cResult>>
     \/ /\ cLlmFailed' = TRUE
        /\ ChatExcept("model")
  /\ UNCHANGED <<store, fs_temp, chats, question, vector_store_path,
                 promptDocs, ivars, avars, svars>>

\* retriever.get_relevant_documents(question), the context list, the result
ChatContext ==
  /\ cpc = "context"
  /\ LET retrieved_docs ==
           similarity_search(store[vector_store_path], question, TopK) IN
       cResult' = [success |-> TRUE, answer |-> "response",
                   context |-> context_docs_of(retrieved_docs)]
  /\ cpc' = "idle"
  /\ UNCHANGED <<store, fs_temp, chats, question, vector_store_path,
                 promptDocs, cLlmCalls, cLlmFailed, ivars, avars, svars>>

----------------------------------------------------------------------------
\* GitHubService

\* issue.body is None
NoneStr == <<"None">>

\* The issues of the remote repository.
RemoteIssues ==
  << [number |-> 1, title |-> <<"A", "b">>, state |-> "open",
      body |-> NoneStr, labels |-> <<"bug">>, comments |-> <<1, 2>>],
     [number |-> 2, title |-> <<"x">>, state |-> "open",
      body |-> <<"B", " ", "a">>, labels |-> <<>>,
      comments |-> <<1, 2, 3, 4, 5, 6>>],
     [number |-> 3, title |-> <<"c", "a">>, state |-> "open",
      body |-> <<>>, labels |-> <<>>, comments |-> <<>>] >>

\* The issue numbers callers ask for; the last one does not exist.
IssueNumbers == 1..(Len(RemoteIssues) + 1)

\* get_comments()[:5]
MaxComments == 5

\* issue_data as built before the model call
issue_data_of(issue) ==
  [title |-> issue.title, number |-> issue.number, state |-> issue.state,
   body |-> IF issue.body = NoneStr \/ issue.body = <<>>
            THEN <<"No description provided">> ELSE issue.body,
   labels |-> issue.labels,
   comments |-> Take(issue.comments, MaxComments)]

\* except Exception as e: return {"success": False, "error": str(e)}
AnalyzeExcept(e) ==
  /\ apc' = "idle"
  /\ aResult' = Failure(e)

\* get_repo / get_issue / get_comments, then issue_data
AnalyzeCall ==
  /\ apc = "idle" /\ analyses < MaxAnalyses
  /\ analyses' = analyses + 1
  /\ aLlmCalls' = 0 /\ aLlmFailed' = FALSE
  /\ \E issue_number \in IssueNumbers :
       IF issue_number \in 1..Len(RemoteIssues)
       THEN /\ issue_data' = issue_data_of(RemoteIssues[issue_number])
            /\ apc' = "llm"
            /\ UNCHANGED aResult
       ELSE /\ issue_data' = NoResult
            /\ AnalyzeExcept("not found")
  /\ UNCHANGED <<store, fs_temp, ivars, cvars, svars>>

\* llm.invoke([HumanMessage(...)]) and the success result
AnalyzeLLM ==
  /\ apc = "llm"
  /\ aLlmCalls' = aLlmCalls + 1
  /\ \/ /\ aResult' = [success |-> TRUE,
                       data |-> issue_data @@ [ai_analysis |-> "analysis"]]
        /\ apc' = "idle"
        /\ UNCHANGED aLlmFailed
     \/ /\ aLlmFailed' = TRUE
        /\ AnalyzeExcept("model")
  /\ UNCHANGED <<store, fs_temp, analyses, issue_data, ivars, cvars, svars>>

----------------------------------------------------------------------------
\* GitHubService.search_issues

\* str.lower on one character
LowerChar(c) ==
  CASE c = "A" -> "a" [] c = "B" -> "b" [] c = "X" -> "x" [] OTHER -> c

\* str.lower
lower(s) == [i \in 1..Len(s) |-> LowerChar(s[i])]

IsSpace(c) == c \in {" ", "\t"}

RECURSIVE split_from(_, _, _)
\* str.split(): the maximal runs of non-whitespace, in order
split_from(s, i, cur) ==
  IF i > Len(s) THEN (IF cur = <<>> THEN <<>> ELSE <<cur>>)
  ELSE IF IsSpace(s[i])
       THEN (IF cur = <<>> THEN <<>> ELSE <<cur>>) \o split_from(s, i + 1, <<>>)
       ELSE split_from(s, i + 1, Append(cur, s[i]))

split(s) == split_from(s, 1, <<>>)

\* kw in text
Contains(text, kw) ==
  \E i \in 0..(Len(text) - Len(kw)) : SubSeq(text, i + 1, i + Len(kw)) = kw

\* keywords.split(): the lower() forgotten
keyword_list_nolower(kws) == split(kws)

\* keywords.lower().split()
keyword_list(kws) == split(lower(kws))

\* f"{issue.title} {issue.body or ''}".lower()
issue_text(issue) ==
  lower(issue.title \o <<" ">> \o
        (IF issue.body = NoneStr \/ issue.body = <<>> THEN <<>> ELSE issue.body))

\* the issue is skipped by the keyword test (the `continue`)
skipped(issue, kws) ==
  /\ kws # <<>>
  /\ ~ \E n \in 1..Len(keyword_list(kws)) :
         Contains(issue_text(issue), keyword_list(kws)[n])

\* the dict appended for an issue
issue_item(issue) ==
  [number |-> issue.number, title |-> issue.title, state |-> issue.state,
   labels |-> issue.labels, comments |-> Len(issue.comments)]

\* The keywords callers supply.
KeywordChoices ==
  { <<>>, <<"A">>, <<"a", "b">>, <<"q", " ", "X">>, <<" ">>,
    <<"b", "\t", "c">>, <<"b", "a">> }

\* What repo.get_issues(state, labels) lists: any issues, in any order.
Listings ==
  {l \in UNION {[1..k -> 1..Len(RemoteIssues)] : k \in 0..Len(RemoteIssues)} :
     \A i, j \in 1..Len(l) : i # j => l[i] # l[j]}

\* g.get_repo(repo_name) raises
SearchGetRepoRaises ==
  /\ spc = "idle" /\ searches < MaxSearches
  /\ searches' = searches + 1
  /\ \E kws \in KeywordChoices, cap \in 1..MaxCap :
       /\ keywords' = kws
       /\ max_results' = cap
  /\ listing' = <<>> /\ cursor' = 0 /\ issues_list' = <<>>
  /\ sResult' = Failure("not found")
  /\ UNCHANGED <<store, fs_temp, spc, ivars, cvars, avars>>

\* the call starts: issues_list = [], the listing is opened
SearchCall ==
  /\ spc = "idle" /\ searches < MaxSearches
  /\ searches' = searches + 1
  /\ \E kws \in KeywordChoices, cap \in 1..MaxCap, l \in Listings :
       /\ keywords' = kws
       /\ max_results' = cap
       /\ listing' = [i \in 1..Len(l) |-> RemoteIssues[l[i]]]
  /\ cursor' = 0 /\ issues_list' = <<>>
  /\ spc' = "iter"
  /\ UNCHANGED <<store, fs_temp, sResult, ivars, cvars, avars>>

\* the for statement asks the listing for its next issue and there is none
SearchExhausted ==
  /\ spc = "iter" /\ cursor = Len(listing)
  /\ sResult' = [success |-> TRUE, issues |-> issues_list]
  /\ spc' = "idle"
  /\ UNCHANGED <<store, fs_temp, searches, listing, cursor, keywords,
                 max_results, issues_list, ivars, cvars, avars>>

\* the for statement takes the next issue from the listing; the loop body
SearchFetch ==
  /\ spc = "iter" /\ cursor < Len(listing)
  /\ cursor' = cursor + 1
  /\ LET issue == listing[cursor + 1] IN
       IF Len(issues_list) >= max_results
       THEN /\ sResult' = [success |-> TRUE, issues |-> issues_list]
            /\ spc' = "idle"
            /\ UNCHANGED issues_list
       ELSE /\ issues_list' = IF skipped(issue, keywords) THEN issues_list
                              ELSE Append(issues_list, issue_item(issue))
            /\ UNCHANGED <<spc, sResult>>
  /\ UNCHANGED <<store, fs_temp, searches, listing, keywords, max_results,
                 ivars, cvars, avars>>

\* reading the listing raises
SearchIterRaises ==
  /\ spc = "iter"
  /\ sResult' = Failure("remote")
  /\ spc' = "idle"
  /\ UNCHANGED <<store, fs_temp, searches, listing, cursor, keywords,
                 max_results, issues_list, ivars, cvars, avars>>

\* lines 45-49 on their own: the language chosen for a file_extensions list
ChooseLanguage ==
  /\ ipc = "choose"
  /\ language' = choose_language(file_extensions)
  /\ ipc' = "chosen"
  /\ UNCHANGED <<store, fs_temp, calls, temp_dir, repo_id, file_extensions,
                 loaded, documents, splits, written, iResult, storeAtCall,
                 okBuilds, cvars, avars, svars>>

----------------------------------------------------------------------------

Init ==
  /\ store = [r \in RepoIds |-> <<>>]
  /\ fs_temp = {}
  /\ ipc = "idle" /\ calls = 0 /\ temp_dir = NoDir /\ repo_id = 1
  /\ file_extensions = <<>> /\ loaded = FALSE /\ documents = <<>>
  /\ language = "unset" /\ splits = <<>> /\ written = 0
  /\ iResult = NoResult
  /\ storeAtCall = [r \in RepoIds |-> <<>>]
  /\ okBuilds = [r \in RepoIds |-> 0]
  /\ cpc = "idle" /\ chats = 0 /\ question = <<>> /\ vector_store_path = 1
  /\ promptDocs = <<>> /\ cLlmCalls = 0 /\ cLlmFailed = FALSE
  /\ cResult = NoResult
  /\ apc = "idle" /\ analyses = 0 /\ issue_data = NoResult /\ aLlmCalls = 0
  /\ aLlmFailed = FALSE /\ aResult = NoResult
  /\ spc = "idle" /\ searches = 0 /\ listing = <<>> /\ cursor = 0
  /\ keywords = <<>> /\ max_results = 1 /\ issues_list = <<>>
  /\ sResult = NoResult

\* the state in which the language choice is about to run on some list
InitLang ==
  /\ store = [r \in RepoIds |-> <<>>]
  /\ fs_temp = {}
  /\ ipc = "choose" /\ calls = 0 /\ temp_dir = NoDir /\ repo_id = 1
  /\ file_extensions \in SeqsUpTo(LangExts, MaxExts)
  /\ loaded = FALSE /\ documents = <<>>
  /\ language = "unset" /\ splits = <<>> /\ written = 0
  /\ iResult = NoResult
  /\ storeAtCall = [r \in RepoIds |-> <<>>]
  /\ okBuilds = [r \in RepoIds |-> 0]
  /\ cpc = "idle" /\ chats = 0 /\ question = <<>> /\ vector_store_path = 1
  /\ promptDocs = <<>> /\ cLlmCalls = 0 /\ cLlmFailed = FALSE
  /\ cResult = NoResult
  /\ apc = "idle" /\ analyses = 0 /\ issue_data = NoResult /\ aLlmCalls = 0
  /\ aLlmFailed = FALSE /\ aResult = NoResult
  /\ spc = "idle" /\ searches = 0 /\ listing = <<>> /\ cursor = 0
  /\ keywords = <<>> /\ max_results = 1 /\ issues_list = <<>>
  /\ sResult = NoResult

\* load_and_index_repository, one call after another
Next ==
  \/ IndexCallMkdtempRaises
  \/ IndexCall
  \/ IndexLoadRaises
  \/ IndexLoad
  \/ IndexPersistBatch
  \/ IndexPersistRaises
  \/ IndexReturn

Spec == Init /\ [][Next]_vars

\* get_response running while the repository is indexed
NextChat ==
  \/ IndexCallMkdtempRaises
  \/ IndexCall
  \/ IndexLoadRaises
  \/ IndexLoad
  \/ IndexPersistBatch
  \/ IndexPersistRaises
  \/ IndexReturn
  \/ ChatCall
  \/ ChatChainRetrieve
  \/ ChatRetrieveRaises
  \/ ChatLLM
  \/ ChatContext

SpecChat == Init /\ [][NextChat]_vars

\* the two services that call the language model
NextModelCalls ==
  \/ ChatCall
  \/ ChatChainRetrieve
  \/ ChatRetrieveRaises
  \/ ChatLLM
  \/ ChatContext
  \/ AnalyzeCall
  \/ AnalyzeLLM

SpecModelCalls == Init /\ [][NextModelCalls]_vars

NextSearch ==
  \/ SearchGetRepoRaises
  \/ SearchCall
  \/ SearchExhausted
  \/ SearchFetch
  \/ SearchIterRaises

SpecSearch == Init /\ [][NextSearch]_vars

NextLang == ChooseLanguage

SpecLang == InitLang /\ [][NextLang]_vars

----------------------------------------------------------------------------
\* Properties of load_and_index_repository

C2_RebuildReplaces ==
  (/\ ipc = "idle" /\ calls > 0
   /\ iResult.success
   /\ okBuilds[repo_id] >= 2)
  => /\ Len(store[repo_id]) = iResult.chunk_count
     /\ \A i \in 1..Len(store[repo_id]) : store[repo_id][i].id[1] = calls

\* C3: a run for a repo_id that already has a working index and that fails
\* leaves the entries of that index as they were before the run.
C3_FailedReindexKeepsIndex ==
  (/\ ipc = "idle" /\ calls > 0
   /\ ~iResult.success
   /\ Len(storeAtCall[repo_id]) > 0)
  => store[repo_id] = storeAtCall[repo_id]

\* C4: when the clone yields no file matching the filter, the call has
\* returned a failure with an error and the repository's collection is as it
\* was before the call; no call returns success with file_count 0.
C4_EmptyIsFailure ==
  /\ (loaded /\ documents = <<>>)
       => /\ ipc = "idle"
          /\ ~iResult.success
          /\ "error" \in DOMAIN iResult
          /\ store = storeAtCall
  /\ (ipc = "idle" /\ calls > 0 /\ iResult.success) => iResult.file_count > 0

\* a call on a repository that has an index found no matching file
C4_Witness ==
  /\ ipc = "idle" /\ loaded /\ documents = <<>>
  /\ Len(storeAtCall[repo_id]) > 0

\* the indices of the extensions that have a configured language
Configured(exts) == {i \in 1..Len(exts) : exts[i] \in DOMAIN language_map}

FirstConfigured(exts) ==
  CHOOSE i \in Configured(exts) : \A j \in Configured(exts) : i <= j

\* C9 as stated: the language is that of the first configured extension in the
\* caller's order, and a generic splitter (none of the configured languages)
\* when no extension is configured.
C9_GenericDefault ==
  ipc = "chosen" =>
    IF Configured(file_extensions) = {}
    THEN language \notin {language_map[e] : e \in DOMAIN language_map}
    ELSE language = language_map[file_extensions[FirstConfigured(file_extensions)]]

\* C9 amended: the language is that of the first configured extension in the
\* caller's order, and PYTHON when no extension is configured.
C9_FirstConfiguredElsePython ==
  ipc = "chosen" =>
    IF Configured(file_extensions) = {}
    THEN language = "PYTHON"
    ELSE language = language_map[file_extensions[FirstConfigured(file_extensions)]]

\* an unconfigured extension first, then two configured ones of different
\* languages
C9_Witness ==
  /\ ipc = "chosen" /\ Len(file_extensions) = 3
  /\ Configured(file_extensions) = {2, 3}
  /\ language_map[file_extensions[2]] # language_map[file_extensions[3]]

----------------------------------------------------------------------------
\* Properties of get_response and analyze_issue

\* C7: the context list of a successful get_response is the list of chunks
\* that went into the prompt, in rank order, at most TopK, each cut to
\* PreviewLen, also when the collection is written meanwhile.
C7_ContextIsPromptContext ==
  (cpc = "idle" /\ chats > 0 /\ cResult.success)
  => cResult.context = context_docs_of(promptDocs)

\* C6: when the model call of analyze_issue fails after the issue was
\* fetched, the result carries the fetched metadata, without ai_analysis.
C6_MetadataKept ==
  (apc = "idle" /\ aLlmFailed)
  => /\ "data" \in DOMAIN aResult
     /\ "ai_analysis" \notin DOMAIN aResult.data
     /\ \A f \in {"title", "number", "state", "body", "labels", "comments"} :
          aResult.data[f] = issue_data[f]

\* C8: within one call the model is invoked at most once, and a failed
\* invocation ends the call with a failure result.
C8_NoRetry ==
  /\ cLlmCalls <= 1
  /\ aLlmCalls <= 1
  /\ cLlmFailed => (cpc = "idle" /\ ~cResult.success /\ "error" \in DOMAIN cResult)
  /\ aLlmFailed => (apc = "idle" /\ ~aResult.success /\ "error" \in DOMAIN aResult)

\* both services had their model call fail
C8_Witness ==
  /\ cLlmFailed /\ cLlmCalls = 1 /\ cpc = "idle"
  /\ aLlmFailed /\ aLlmCalls = 1 /\ apc = "idle"

----------------------------------------------------------------------------
\* Properties of search_issues

\* C5: the list never exceeds max_results, and once it holds max_results
\* issues no further issue is taken from the remote listing.
C5_StopsAtCap ==
  [][/\ Len(issues_list') <= max_results'
     /\ (spc = "iter" /\ Len(issues_list) >= max_results) => cursor' = cursor]_vars

\* the whitespace-separated keywords of a string
Words(s) ==
  {SubSeq(s, p[1], p[2]) :
     p \in {q \in (1..Len(s)) \X (1..Len(s)) :
              /\ q[1] <= q[2]
              /\ \A k \in q[1]..q[2] : s[k] \notin {" ", "\t"}
              /\ (q[1] = 1 \/ s[q[1] - 1] \in {" ", "\t"})
              /\ (q[2] = Len(s) \/ s[q[2] + 1] \in {" ", "\t"})}}

\* the same letter, whatever the case
SameLetter(a, b) ==
  a = b \/ {a, b} = {"a", "A"} \/ {a, b} = {"b", "B"} \/ {a, b} = {"x", "X"}

\* w occurs in text, whatever the case
OccursIn(w, text) ==
  \E off \in 0..(Len(text) - Len(w)) :
     \A k \in 1..Len(w) : SameLetter(w[k], text[off + k])

\* an issue's title plus body, a missing body counting as empty
TitlePlusBody(issue) ==
  issue.title \o <<" ">> \o (IF issue.body = NoneStr THEN <<>> ELSE issue.body)

\* the issue passes the keyword filter the claim describes
Passes(issue, kws) ==
  kws = <<>> \/ \E w \in Words(kws) : OccursIn(w, TitlePlusBody(issue))

\* the numbers of the listed issues that pass, in listing order
PassingNumbers ==
  LET passing == Pick(listing, {i \in 1..Len(listing) : Passes(listing[i], keywords)}, 1)
  IN [i \in 1..Len(passing) |-> passing[i].number]

ResultNumbers == [i \in 1..Len(sResult.issues) |-> sResult.issues[i].number]

\* C10 as stated: the result of a successful search is exactly the listed
\* issues that pass the keyword filter, in listing order.
C10_ExactlyThePassing ==
  (spc = "idle" /\ searches > 0 /\ sResult.success)
  => ResultNumbers = PassingNumbers

\* C10 amended: the result of a successful search is the first max_results of
\* the listed issues that pass the keyword filter, in listing order.
C10_FirstPassingUpToCap ==
  (spc = "idle" /\ searches > 0 /\ sResult.success)
  => ResultNumbers = Take(PassingNumbers, max_results)

\* a search with an upper-case keyword over three issues kept some and
\* dropped some
C10_Witness ==
  /\ spc = "idle" /\ searches > 0 /\ sResult.success
  /\ \E i \in 1..Len(keywords) : keywords[i] \in {"A", "X"}
  /\ Len(listing) = 3
  /\ Len(sResult.issues) > 0
  /\ Len(PassingNumbers) < Len(listing)

====
